---- MODULE Spec2Model ----
(***************************************************************************)
(* Job submission and deduplication layer of the experiment pipeline:      *)
(* submission/utils.py (submit_training, submit_grads, submit_measurements,*)
(* execute_job_submission) and the naming functions of src/utils.py        *)
(* (get_experiment_prefix, get_save_path).                                 *)
(*                                                                         *)
(* Python strings that the code builds (identifiers, paths) are sequences  *)
(* of one-character strings, so that joining and formatting are computed.  *)
(* Lines read from standard input are only compared for equality by the    *)
(* code and are TLA+ strings.                                              *)
(***************************************************************************)
EXTENDS Integers, Sequences, FiniteSets, TLC

VARIABLES
    fs,            \* paths that exist on disk (os.path.exists)
    pc,            \* position of the submission call
    kind,          \* which submit_* function was called
    port,          \* the port argument (NoPort is Python's None)
    block_main,    \* the block_main argument
    table,         \* args: the expanded table with its derived columns
    valid_args,    \* the table handed to execute_job_submission
    ckpt_report,   \* lines printed under the checkpoint heading
    out_report,    \* lines printed under "Output dirs skipped:"
    jobs_args,     \* jobs_args of execute_job_submission
    phases,        \* history: the phases the call went through
    prompted,      \* "Do you want to continue? [y/n]" was printed
    stdin,         \* the line input() returned, Unread before
    executor,      \* the AutoExecutor was created and configured
    func_calls,    \* arguments of the direct calls func(...)
    submitted,     \* argument records handed to executor.map_array
    fetched,       \* indices of the handles whose result() was called
    results,       \* results collected by the list comprehension
    returned,      \* what the call returned
    raised,        \* the exception that left the call, NoError if none
    timeout,       \* the timeout argument
    kwargs,        \* **args of the call: the grid of value lists
    \* get_experiment_prefix / get_save_path applied to two records
    rec_a, rec_b,  \* the two records
    id_a, id_b,    \* their identifiers, Unnamed before
    \* two submission runs against the same disk
    race_kind,     \* the submit_* function both runs call
    run_pc,        \* position of each run
    run_valid,     \* valid_args of each run
    run_submitted, \* records each run handed to executor.map_array
    race_log,      \* the order in which the runs checked and answered
    \* measurement jobs (quant.main) of one array job
    quant_jobs,    \* the argument records of the array job
    quant_done,    \* indices of the jobs that have completed
    quants_csv,    \* rows of quants.csv, none while it does not exist
    \* loading src/datasets.py
    load_pc,       \* index of the next @register_dataset to execute
    registered_datasets, \* keys of the registry dict
    load_error,    \* the exception that ended the module load
    paths_attrs    \* the *_ROOT attributes the paths module defines

vars == <<fs, pc, kind, port, block_main, table, valid_args, ckpt_report,
          out_report, jobs_args, phases, prompted, stdin, executor,
          func_calls, submitted, fetched, results, returned, raised, timeout,
          kwargs, rec_a, rec_b, id_a, id_b, race_kind, run_pc, run_valid,
          run_submitted, race_log, quant_jobs, quant_done, quants_csv, load_pc,
          registered_datasets, load_error, paths_attrs>>

\* the parts of the state, by the code they belong to
nameVars == <<rec_a, rec_b, id_a, id_b>>
raceVars == <<race_kind, run_pc, run_valid, run_submitted, race_log>>
quantVars == <<quant_jobs, quant_done, quants_csv>>
loadVars == <<load_pc, registered_datasets, load_error, paths_attrs>>
callVars == <<pc, kind, port, block_main, table, valid_args, ckpt_report,
              out_report, jobs_args, phases, prompted, stdin, executor,
              func_calls, submitted, fetched, results, returned, raised,
              timeout, kwargs>>

----------------------------------------------------------------------------
\* Bounds of the model.

\* debugger ports range over 1..MaxPort (next to None and 0)
MaxPort == 1
\* at most MaxFiles of the derived paths exist on disk initially
MaxFiles == 2
\* the seed value list of a grid is 1..n with n <= MaxSeeds
MaxSeeds == 2

----------------------------------------------------------------------------
\* Python values.

\* Python's None as a port value: the code tests "port != None"
NoPort == -1

Ports == {NoPort} \cup (0 .. MaxPort)

DigitChars == <<"0", "1", "2", "3", "4", "5", "6", "7", "8", "9">>

RECURSIVE IntToStr(_)
\* str(n) for an int
IntToStr(n) ==
    IF n < 0 THEN <<"-">> \o IntToStr(-n)
    ELSE IF n < 10 THEN <<DigitChars[n + 1]>>
    ELSE IntToStr(n \div 10) \o <<DigitChars[(n % 10) + 1]>>

RECURSIVE Join(_, _)
\* sep.join(strs)
Join(sep, strs) ==
    IF strs = <<>> THEN <<>>
    ELSE IF Len(strs) = 1 THEN strs[1]
    ELSE strs[1] \o sep \o Join(sep, Tail(strs))

RECURSIVE Concat(_)
Concat(ss) == IF ss = <<>> THEN <<>> ELSE Head(ss) \o Concat(Tail(ss))

\* os.path.join(a, b) on POSIX
PathJoin(a, b) ==
    IF b # <<>> /\ b[1] = "/" THEN b
    ELSE IF a = <<>> \/ a[Len(a)] = "/" THEN a \o b
    ELSE a \o <<"/">> \o b

Range(s) == {s[i] : i \in DOMAIN s}

----------------------------------------------------------------------------
\* Naming (src/utils.py).

EXPERIMENT_PREFIX_SEP == <<":", ":">>

\* mutant of get_experiment_prefix: the epochs are part of the name
get_experiment_prefix_with_epochs(r) ==
    LET name_list == << r.model_name,
                        Join(<<"_">>, [i \in DOMAIN r.layers |-> IntToStr(r.layers[i])]),
                        r.activation,
                        IntToStr(r.seed),
                        IntToStr(r.l2_reg),
                        IntToStr(r.img_size),
                        IntToStr(r.epochs) >>
    IN PathJoin(r.dataset, Join(EXPERIMENT_PREFIX_SEP, name_list))

\* mutant of get_experiment_prefix: seed and activation change places
get_experiment_prefix_seed_first(r) ==
    LET name_list == << r.model_name,
                        Join(<<"_">>, [i \in DOMAIN r.layers |-> IntToStr(r.layers[i])]),
                        IntToStr(r.seed),
                        r.activation,
                        IntToStr(r.l2_reg),
                        IntToStr(r.img_size) >>
    IN PathJoin(r.dataset, Join(EXPERIMENT_PREFIX_SEP, name_list))

get_experiment_prefix(r) ==
    LET name_list == << r.model_name,
                        Join(<<"_">>, [i \in DOMAIN r.layers |-> IntToStr(r.layers[i])]),
                        r.activation,
                        IntToStr(r.seed),
                        IntToStr(r.l2_reg),
                        IntToStr(r.img_size) >>
    IN PathJoin(r.dataset, Join(EXPERIMENT_PREFIX_SEP, name_list))

get_save_path(r) ==
    <<"c","h","e","c","k","p","o","i","n","t","s","/">>
        \o get_experiment_prefix(r) \o <<".","p","t">>

\* paths.LOCAL_OUTPUT_DIR: the configured root of the experiment output
\* directories
LOCAL_OUTPUT_DIR == <<"o","u","t">>

experiment_output_dir(r) == PathJoin(LOCAL_OUTPUT_DIR, get_experiment_prefix(r))

----------------------------------------------------------------------------
\* Inputs of a submission call: the hyperparameter grid and the caller's
\* keyword arguments.

MNIST == <<"M","N","I","S","T">>
SIMPLE_CNN == <<"S","I","M","P","L","E","_","C","N","N">>
RESNET18 == <<"R","E","S","N","E","T","1","8">>
RELU == <<"R","E","L","U">>

\* value lists of the model_name parameter
ModelLists == { <<SIMPLE_CNN>>, <<SIMPLE_CNN, RESNET18>> }

\* value lists of the seed parameter: 1..n; the empty list only where the
\* caller may pass it (see Grids)
SeedLists(lo) == { [i \in 1 .. n |-> i] : n \in lo .. MaxSeeds }

\* value lists of the epochs parameter, a field the identifier does not read
EpochLists == { <<10>>, <<10, 20>> }

\* The grids a call is given, **args in keyword order.  submit_training and
\* submit_grads are given grids whose value lists are all non-empty;
\* submit_measurements, which derives no column row by row, is also given
\* grids with an empty seed list.
Grids(lo) ==
    [ dataset : {<<MNIST>>}, model_name : ModelLists, layers : {<< <<8, 16>> >>},
      activation : {<<RELU>>}, seed : SeedLists(lo), l2_reg : {<<0>>},
      img_size : {<<28>>}, epochs : EpochLists ]

\* batch_size: the caller's map from activation to batch size
batch_size == [a \in {RELU} |-> 128]

\* warmup_epochs_ratio of the caller as a fraction <<numerator, denominator>>
warmup_epochs_ratio == <<1, 10>>

Timeouts == {60}

\* lines the operator may type at the prompt
InputLines == {"y", "n", "Y", "yes", ""}

Unread == "<unread>"

Kinds == {"training", "grads", "measurements"}

----------------------------------------------------------------------------
\* Argument expander: pd.DataFrame(list(product(*args.values())), columns=args.keys())

RECURSIVE product_first_fastest(_)
\* mutant of product: the first parameter varies fastest
product_first_fastest(lists) ==
    IF lists = <<>> THEN << <<>> >>
    ELSE LET hd == Head(lists)
             rest == product_first_fastest(Tail(lists))
         IN Concat([j \in 1 .. Len(rest) |->
                       [i \in 1 .. Len(hd) |-> <<hd[i]>> \o rest[j]]])

RECURSIVE product(_)
\* itertools.product of a sequence of value lists
product(lists) ==
    IF lists = <<>> THEN << <<>> >>
    ELSE LET hd == Head(lists)
             rest == product(Tail(lists))
         IN Concat([i \in 1 .. Len(hd) |->
                       [j \in 1 .. Len(rest) |-> <<hd[i]>> \o rest[j]]])

Expand(grid) ==
    LET rows == product(<< grid.dataset, grid.model_name, grid.layers,
                           grid.activation, grid.seed, grid.l2_reg,
                           grid.img_size, grid.epochs >>)
    IN [i \in 1 .. Len(rows) |->
          [ dataset |-> rows[i][1], model_name |-> rows[i][2],
            layers |-> rows[i][3], activation |-> rows[i][4],
            seed |-> rows[i][5], l2_reg |-> rows[i][6],
            img_size |-> rows[i][7], epochs |-> rows[i][8] ]]

\* the grid columns of a row of any table
Candidate(r) ==
    [ dataset |-> r.dataset, model_name |-> r.model_name, layers |-> r.layers,
      activation |-> r.activation, seed |-> r.seed, l2_reg |-> r.l2_reg,
      img_size |-> r.img_size, epochs |-> r.epochs ]

\* the rows of a table selected by a boolean mask, in table order: args[mask]
RECURSIVE Masked(_, _)
Masked(rows, mask) ==
    IF rows = <<>> THEN <<>>
    ELSE (IF mask[1] THEN <<rows[1]>> ELSE <<>>) \o Masked(Tail(rows), Tail(mask))

\* os.path.exists
exists(path) == path \in fs

----------------------------------------------------------------------------
\* The universe of derived paths, from which the initial disk content is drawn.

AllCandidates ==
    UNION { Range(Expand(g)) : g \in Grids(1) }

CheckpointPaths == { get_save_path(r) : r \in AllCandidates }

OutputDirs == { experiment_output_dir(r) : r \in AllCandidates }

----------------------------------------------------------------------------
\* Values the call leaves behind.

NoError == "NoError"

\* a Python argument or return value: a list of records, one record (dict),
\* None, or nothing yet
PyList(items) == [type |-> "list", items |-> items]
PyDict(rec) == [type |-> "dict", items |-> <<rec>>]
PyNone == [type |-> "None", items |-> <<>>]
NotReturned == [type |-> "pending", items |-> <<>>]

\* what a job handle's result() yields when the job succeeded
ResultOf(rec) == [result_of |-> Candidate(rec)]

----------------------------------------------------------------------------
\* submit_training: derived columns and existence filter.

TrainingTable(grid) ==
    LET args == Expand(grid)
    IN [i \in DOMAIN args |->
          [ dataset |-> args[i].dataset, model_name |-> args[i].model_name,
            layers |-> args[i].layers, activation |-> args[i].activation,
            seed |-> args[i].seed, l2_reg |-> args[i].l2_reg,
            img_size |-> args[i].img_size, epochs |-> args[i].epochs,
            tb_postfix |-> get_experiment_prefix(args[i]),
            checkpoint_path |-> get_save_path(args[i]) ]]

\* checkpoint_exists = args["checkpoint_path"].apply(os.path.exists)
checkpoint_exists(args) == [i \in DOMAIN args |-> exists(args[i].checkpoint_path)]

\* mutant of TrainingValidMask: the negation of the mask is lost
TrainingValidMaskKeepExisting(args) == checkpoint_exists(args)

\* the mask of valid_args = args[~checkpoint_exists]
TrainingValidMask(args) == [i \in DOMAIN args |-> ~checkpoint_exists(args)[i]]

\* args[checkpoint_exists]["checkpoint_path"].apply(print)
TrainingReport(args) ==
    LET rows == Masked(args, checkpoint_exists(args))
    IN [i \in DOMAIN rows |-> rows[i].checkpoint_path]

TrainingValidArgs(args, p, b, t) ==
    LET rows == Masked(args, TrainingValidMask(args))
    IN [i \in DOMAIN rows |->
          [ dataset |-> rows[i].dataset, model_name |-> rows[i].model_name,
            layers |-> rows[i].layers, activation |-> rows[i].activation,
            seed |-> rows[i].seed, l2_reg |-> rows[i].l2_reg,
            img_size |-> rows[i].img_size, epochs |-> rows[i].epochs,
            tb_postfix |-> rows[i].tb_postfix,
            checkpoint_path |-> rows[i].checkpoint_path,
            port |-> p, block_main |-> b, timeout |-> t,
            batch_size |-> batch_size[rows[i].activation],
            warmup_epochs |->
                (rows[i].epochs * warmup_epochs_ratio[1]) \div warmup_epochs_ratio[2] ]]

----------------------------------------------------------------------------
\* submit_grads: derived columns, the two existence predicates, the reports.

GradsTable(grid, p, b, t) ==
    LET args == Expand(grid)
    IN [i \in DOMAIN args |->
          [ dataset |-> args[i].dataset, model_name |-> args[i].model_name,
            layers |-> args[i].layers, activation |-> args[i].activation,
            seed |-> args[i].seed, l2_reg |-> args[i].l2_reg,
            img_size |-> args[i].img_size, epochs |-> args[i].epochs,
            port |-> p, block_main |-> b, timeout |-> t,
            batch_size |-> batch_size[args[i].activation],
            experiment_prefix |-> get_experiment_prefix(args[i]),
            experiment_output_dir |->
                PathJoin(LOCAL_OUTPUT_DIR, get_experiment_prefix(args[i])),
            checkpoint_path |-> get_save_path(args[i]) ]]

\* output_dir_exists = args["experiment_output_dir"].apply(os.path.exists)
output_dir_exists(args) ==
    [i \in DOMAIN args |-> exists(args[i].experiment_output_dir)]

\* mutant of valid_ids: the output directory is not consulted
valid_ids_ignoring_output(args) == checkpoint_exists(args)

\* valid_ids = checkpoint_exists & ~output_dir_exists
valid_ids(args) ==
    [i \in DOMAIN args |-> checkpoint_exists(args)[i] /\ ~output_dir_exists(args)[i]]

\* print("Checkpoints skipped:"); args[~checkpoint_exists]["checkpoint_path"].apply(print)
GradsCheckpointReport(args) ==
    LET rows == Masked(args, [i \in DOMAIN args |-> ~checkpoint_exists(args)[i]])
    IN [i \in DOMAIN rows |-> rows[i].checkpoint_path]

\* print("Output dirs skipped:"); args[output_dir_exists]["experiment_output_dir"].apply(print)
GradsOutputReport(args) ==
    LET rows == Masked(args, output_dir_exists(args))
    IN [i \in DOMAIN rows |-> rows[i].experiment_output_dir]

GradsValidArgs(args) == Masked(args, valid_ids(args))

----------------------------------------------------------------------------
\* submit_measurements: the product with the three submission columns, unfiltered.

\* mutant of MeasurementsTable: rows without a checkpoint or with an output
\* directory are dropped, as submit_grads drops them
MeasurementsTableFiltered(grid, p, b, t) ==
    LET args == Masked(Expand(grid),
                       [i \in DOMAIN Expand(grid) |->
                           /\ exists(get_save_path(Expand(grid)[i]))
                           /\ ~exists(experiment_output_dir(Expand(grid)[i]))])
    IN [i \in DOMAIN args |->
          [ dataset |-> args[i].dataset, model_name |-> args[i].model_name,
            layers |-> args[i].layers, activation |-> args[i].activation,
            seed |-> args[i].seed, l2_reg |-> args[i].l2_reg,
            img_size |-> args[i].img_size, epochs |-> args[i].epochs,
            port |-> p, block_main |-> b, timeout |-> t ]]

MeasurementsTable(grid, p, b, t) ==
    LET args == Expand(grid)
    IN [i \in DOMAIN args |->
          [ dataset |-> args[i].dataset, model_name |-> args[i].model_name,
            layers |-> args[i].layers, activation |-> args[i].activation,
            seed |-> args[i].seed, l2_reg |-> args[i].l2_reg,
            img_size |-> args[i].img_size, epochs |-> args[i].epochs,
            port |-> p, block_main |-> b, timeout |-> t ]]

----------------------------------------------------------------------------
\* execute_job_submission(block_main, port, timeout, args, func)

\* mutant of DebugFlag: the port is tested for truth (if port:)
DebugFlagTruthy(p) == p > 0

\* mutant of DebugFlag: only the local mode keeps the first job alone
DebugFlagLocalOnly(p) == p = 0

\* "if port != None": the debug flag that keeps only the first job
DebugFlag(p) == p # NoPort

\* "if port == 0": run locally
LocalMode(p) == p = 0

\* mutant of Affirmative: the answer is compared without regard to case
AffirmativeAnyCase(line) == line \in {"y", "Y"}

\* the answer that lets the call go on: not (input() != "y")
Affirmative(line) == line = "y"

\* submitit.AutoExecutor(folder="logs/%j") after update_parameters
ExecutorConfig(t) ==
    [ folder |-> "logs/%j", timeout_min |-> t, cpus_per_task |-> 8,
      constraint |-> "thin", reservation |-> "safe", gpus |-> 1 ]

\* the argument of the direct call: func(jobs_args)
LocalArgument(jobs) == PyList(jobs)

\* mutant of NextHandle: the handles are resolved last to first
NextHandleReversed == Len(submitted) - Len(fetched)

\* the handle whose result() the list comprehension calls next
NextHandle == Len(fetched) + 1

\* mutant of Prelude: the question is printed in remote mode only
PreludeNoLocalPrompt(args, p) ==
    /\ valid_args' = args
    /\ IF p # NoPort /\ args = <<>>
       THEN /\ jobs_args' = args
            /\ raised' = "IndexError"
            /\ returned' = NotReturned
            /\ prompted' = FALSE
            /\ phases' = <<"Expanded", "Filtered">>
            /\ pc' = "done"
       ELSE /\ jobs_args' = IF p # NoPort THEN <<args[1]>> ELSE args
            /\ raised' = NoError
            /\ IF Len(args) = 0
               THEN /\ returned' = PyNone
                    /\ prompted' = FALSE
                    /\ phases' = <<"Expanded", "Filtered", "Aborted">>
                    /\ pc' = "done"
               ELSE /\ returned' = NotReturned
                    /\ prompted' = (p # 0)
                    /\ phases' = <<"Expanded", "Filtered">>
                    /\ pc' = "prompt"
    /\ UNCHANGED <<fs, stdin, executor, func_calls, submitted, fetched, results>>

\* From the entry of execute_job_submission to the prompt: jobs_args, the
\* debug truncation, the empty-table exit, the question.
Prelude(args, p) ==
    /\ valid_args' = args
    /\ IF DebugFlag(p) /\ args = <<>>
       THEN \* jobs_args[0] of an empty list
            /\ jobs_args' = args
            /\ raised' = "IndexError"
            /\ returned' = NotReturned
            /\ prompted' = FALSE
            /\ phases' = <<"Expanded", "Filtered">>
            /\ pc' = "done"
       ELSE /\ jobs_args' = IF DebugFlag(p) THEN <<args[1]>> ELSE args
            /\ raised' = NoError
            /\ IF Len(args) = 0
               THEN /\ returned' = PyNone
                    /\ prompted' = FALSE
                    /\ phases' = <<"Expanded", "Filtered", "Aborted">>
                    /\ pc' = "done"
               ELSE /\ returned' = NotReturned
                    /\ prompted' = TRUE
                    /\ phases' = <<"Expanded", "Filtered">>
                    /\ pc' = "prompt"
    /\ UNCHANGED <<fs, stdin, executor, func_calls, submitted, fetched, results>>

SubmitTraining ==
    /\ pc = "start"
    /\ \E grid \in Grids(1), p \in Ports, b \in BOOLEAN, t \in Timeouts :
          LET args == TrainingTable(grid) IN
          /\ kind' = "training"
          /\ kwargs' = grid
          /\ port' = p /\ block_main' = b /\ timeout' = t
          /\ table' = args
          /\ ckpt_report' = TrainingReport(args)
          /\ out_report' = <<>>
          /\ Prelude(TrainingValidArgs(args, p, b, t), p)
    /\ UNCHANGED <<nameVars, raceVars, quantVars, loadVars>>

SubmitGrads ==
    /\ pc = "start"
    /\ \E grid \in Grids(1), p \in Ports, b \in BOOLEAN, t \in Timeouts :
          LET args == GradsTable(grid, p, b, t) IN
          /\ kind' = "grads"
          /\ kwargs' = grid
          /\ port' = p /\ block_main' = b /\ timeout' = t
          /\ table' = args
          /\ ckpt_report' = GradsCheckpointReport(args)
          /\ out_report' = GradsOutputReport(args)
          /\ Prelude(GradsValidArgs(args), p)
    /\ UNCHANGED <<nameVars, raceVars, quantVars, loadVars>>

SubmitMeasurements ==
    /\ pc = "start"
    /\ \E grid \in Grids(0), p \in Ports, b \in BOOLEAN, t \in Timeouts :
          LET args == MeasurementsTable(grid, p, b, t) IN
          /\ kind' = "measurements"
          /\ kwargs' = grid
          /\ port' = p /\ block_main' = b /\ timeout' = t
          /\ table' = args
          /\ ckpt_report' = <<>>
          /\ out_report' = <<>>
          /\ Prelude(args, p)
    /\ UNCHANGED <<nameVars, raceVars, quantVars, loadVars>>

\* mutant of ReadInput: the local run returns what the job function returned
ReadInputKeepingLocalResult ==
    /\ pc = "prompt"
    /\ \E line \in InputLines, ok \in BOOLEAN :
          /\ stdin' = line
          /\ IF ~Affirmative(line)
             THEN /\ ok
                  /\ phases' = Append(phases, "Aborted")
                  /\ returned' = PyNone
                  /\ pc' = "done"
                  /\ UNCHANGED <<executor, func_calls, submitted, raised>>
             ELSE /\ executor' = <<ExecutorConfig(timeout)>>
                  /\ IF LocalMode(port)
                     THEN /\ func_calls' = Append(func_calls, LocalArgument(jobs_args))
                          /\ phases' = phases \o <<"Confirmed", "LocalRun">>
                          /\ IF ok
                             THEN returned' = PyList(<<ResultOf(jobs_args[1])>>) /\ raised' = raised
                             ELSE returned' = returned /\ raised' = "JobError"
                          /\ pc' = "done"
                          /\ UNCHANGED submitted
                     ELSE /\ ok
                          /\ submitted' = jobs_args
                          /\ phases' = phases \o <<"Confirmed", "RemoteSubmitted">>
                          /\ IF block_main
                             THEN pc' = "waiting" /\ returned' = returned
                             ELSE pc' = "done" /\ returned' = PyNone
                          /\ UNCHANGED <<func_calls, raised>>
    /\ UNCHANGED <<fs, kind, port, block_main, timeout, table, valid_args,
                   ckpt_report, out_report, jobs_args, prompted, fetched, results>>
    /\ UNCHANGED <<kwargs, nameVars, raceVars, quantVars, loadVars>>

\* input() returns a line: abort, or configure the executor and run the
\* first job locally or submit the array job.
\* ok: whether the job function returns rather than raises; it is read in
\* local mode only, where the function runs inside the call.
ReadInput ==
    /\ pc = "prompt"
    /\ \E line \in InputLines, ok \in BOOLEAN :
          /\ stdin' = line
          /\ IF ~Affirmative(line)
             THEN /\ ok
                  /\ phases' = Append(phases, "Aborted")
                  /\ returned' = PyNone
                  /\ pc' = "done"
                  /\ UNCHANGED <<executor, func_calls, submitted, raised>>
             ELSE /\ executor' = <<ExecutorConfig(timeout)>>
                  /\ IF LocalMode(port)
                     THEN /\ func_calls' = Append(func_calls, LocalArgument(jobs_args))
                          /\ phases' = phases \o <<"Confirmed", "LocalRun">>
                          /\ IF ok
                             THEN returned' = PyNone /\ raised' = raised
                             ELSE returned' = returned /\ raised' = "JobError"
                          /\ pc' = "done"
                          /\ UNCHANGED submitted
                     ELSE /\ ok
                          /\ submitted' = jobs_args
                          /\ phases' = phases \o <<"Confirmed", "RemoteSubmitted">>
                          /\ IF block_main
                             THEN pc' = "waiting" /\ returned' = returned
                             ELSE pc' = "done" /\ returned' = PyNone
                          /\ UNCHANGED <<func_calls, raised>>
    /\ UNCHANGED <<fs, kind, port, block_main, timeout, table, valid_args,
                   ckpt_report, out_report, jobs_args, prompted, fetched, results>>
    /\ UNCHANGED <<kwargs, nameVars, raceVars, quantVars, loadVars>>

\* mutant of FetchResult: a failed job is caught and the wait goes on
FetchResultCatching ==
    /\ pc = "waiting"
    /\ LET i == Len(fetched) + 1 IN
       /\ fetched' = Append(fetched, i)
       /\ \E ok \in BOOLEAN :
             /\ results' = IF ok THEN Append(results, ResultOf(submitted[i]))
                                 ELSE results
             /\ raised' = IF ok THEN raised ELSE "JobError"
             /\ IF Len(fetched') = Len(submitted)
                THEN /\ returned' = PyList(results')
                     /\ phases' = Append(phases, "RemoteCompleted")
                     /\ pc' = "done"
                ELSE UNCHANGED <<returned, phases, pc>>
    /\ UNCHANGED <<fs, kind, port, block_main, timeout, table, valid_args,
                   ckpt_report, out_report, jobs_args, prompted, stdin,
                   executor, func_calls, submitted>>
    /\ UNCHANGED <<kwargs, nameVars, raceVars, quantVars, loadVars>>

\* One step of "results = [job.result() for job in jobs]": the next handle
\* resolves, with a result or with the job's failure; after the last result
\* the list is returned.
FetchResult ==
    /\ pc = "waiting"
    /\ LET i == NextHandle IN
       /\ fetched' = Append(fetched, i)
       /\ \E ok \in BOOLEAN :
             IF ok
             THEN /\ results' = Append(results, ResultOf(submitted[i]))
                  /\ raised' = raised
                  /\ IF Len(fetched') = Len(submitted)
                     THEN /\ returned' = PyList(results')
                          /\ phases' = Append(phases, "RemoteCompleted")
                          /\ pc' = "done"
                     ELSE UNCHANGED <<returned, phases, pc>>
             ELSE /\ raised' = "JobError"
                  /\ pc' = "done"
                  /\ UNCHANGED <<results, returned, phases>>
    /\ UNCHANGED <<fs, kind, port, block_main, timeout, table, valid_args,
                   ckpt_report, out_report, jobs_args, prompted, stdin,
                   executor, func_calls, submitted>>
    /\ UNCHANGED <<kwargs, nameVars, raceVars, quantVars, loadVars>>

DiskContents ==
    { d \in SUBSET (CheckpointPaths \cup OutputDirs) : Cardinality(d) <= MaxFiles }

\* no submission call has started
CallIdle ==
    /\ pc = "start"
    /\ kind = "none"
    /\ port = NoPort
    /\ block_main = FALSE
    /\ timeout = 0
    /\ kwargs = <<>>
    /\ table = <<>>
    /\ valid_args = <<>>
    /\ ckpt_report = <<>>
    /\ out_report = <<>>
    /\ jobs_args = <<>>
    /\ phases = <<>>
    /\ prompted = FALSE
    /\ stdin = Unread
    /\ executor = <<>>
    /\ func_calls = <<>>
    /\ submitted = <<>>
    /\ fetched = <<>>
    /\ results = <<>>
    /\ returned = NotReturned
    /\ raised = NoError

\* no record is being named
NameIdle == rec_a = <<>> /\ rec_b = <<>> /\ id_a = <<>> /\ id_b = <<>>

\* no concurrent runs
RaceIdle ==
    /\ race_kind = "none"
    /\ run_pc = <<>> /\ run_valid = <<>> /\ run_submitted = <<>>
    /\ race_log = <<>>

\* no measurement jobs
QuantIdle == quant_jobs = <<>> /\ quant_done = {} /\ quants_csv = <<>>

\* src/datasets.py is not being loaded
LoadIdle ==
    /\ load_pc = 0 /\ registered_datasets = {}
    /\ load_error = NoError /\ paths_attrs = {}

Init ==
    /\ fs \in DiskContents
    /\ CallIdle
    /\ NameIdle /\ RaceIdle /\ QuantIdle /\ LoadIdle

Next ==
    \/ SubmitTraining
    \/ SubmitGrads
    \/ SubmitMeasurements
    \/ ReadInput
    \/ FetchResult

Spec == Init /\ [][Next]_vars

----------------------------------------------------------------------------
\* Vocabulary of the properties.

\* the candidate set: the jobs of the expanded table
Candidates == { Candidate(r) : r \in Range(table) }

\* the jobs the filter kept: the table handed to execute_job_submission
Kept == { Candidate(r) : r \in Range(valid_args) }

\* the jobs run directly or handed to the remote executor
Dispatched ==
    { Candidate(r) : r \in Range(submitted) }
        \cup UNION { { Candidate(r) : r \in Range(func_calls[i].items) } :
                     i \in DOMAIN func_calls }

\* C, O of a grads or training call: candidates whose checkpoint / output
\* directory exists
HasCheckpoint == { c \in Candidates : get_save_path(c) \in fs }
HasOutputDir == { c \in Candidates : experiment_output_dir(c) \in fs }

Called == kind # "none"
Confirmed == stdin = "y"

----------------------------------------------------------------------------
\* C1 (as stated): in submit_training the set of jobs dispatched by a call
\* that the operator confirmed and that raised nothing equals the candidate
\* set minus the candidates whose checkpoint exists.
C1_DispatchedIsComplement ==
    (kind = "training" /\ pc = "done" /\ Confirmed /\ raised = NoError)
        => Dispatched = Candidates \ HasCheckpoint

\* C1 (amended): submit_training keeps a job iff its derived checkpoint path
\* does not exist, prints exactly the existing paths as skipped, and hands
\* exactly candidates minus existing to execute_job_submission; the jobs
\* dispatched are always among those, and are all of those once the operator
\* has confirmed a call whose port is None.
C1_TrainingFilter ==
    kind = "training" =>
        /\ Kept = Candidates \ HasCheckpoint
        /\ \A r \in Range(table) :
              (Candidate(r) \notin Kept) <=> (r.checkpoint_path \in fs)
        /\ Range(ckpt_report) = { get_save_path(c) : c \in HasCheckpoint }
        /\ Dispatched \subseteq Kept
        /\ (port = NoPort /\ Confirmed) => Dispatched = Kept

\* C1 witness: 4 candidates, one existing checkpoint, the other 3 dispatched.
C1_Witness ==
    /\ kind = "training" /\ port = NoPort /\ Confirmed
    /\ Cardinality(Candidates) = 4
    /\ Cardinality(HasCheckpoint) = 1
    /\ Cardinality(Dispatched) = 3

\* C2 (as stated): in submit_grads the jobs passed on are C \ O, the paths
\* reported as checkpoint missing are those of the complement of C, and the
\* directories reported as existing output are those of O /\ C only.
C2_ReportsOutputOfCheckpointed ==
    kind = "grads" =>
        /\ Kept = HasCheckpoint \ HasOutputDir
        /\ Range(ckpt_report) = { get_save_path(c) : c \in Candidates \ HasCheckpoint }
        /\ Range(out_report) =
              { experiment_output_dir(c) : c \in HasOutputDir \cap HasCheckpoint }

\* C2 (amended): the jobs passed on are C \ O and the checkpoint-missing
\* report is the complement of C, but the output-exists report is all of O:
\* a job with no checkpoint and an existing output directory is never passed
\* on and is reported under both headings.
C2_GradsFilter ==
    kind = "grads" =>
        /\ Kept = HasCheckpoint \ HasOutputDir
        /\ Range(ckpt_report) = { get_save_path(c) : c \in Candidates \ HasCheckpoint }
        /\ Range(out_report) = { experiment_output_dir(c) : c \in HasOutputDir }
        /\ \A c \in HasOutputDir \ HasCheckpoint :
              /\ c \notin Kept
              /\ c \notin Dispatched
              /\ get_save_path(c) \in Range(ckpt_report)
              /\ experiment_output_dir(c) \in Range(out_report)

\* C2 witness: a grads call with a job that has an output directory and no
\* checkpoint next to a job that has a checkpoint and no output directory.
C2_Witness ==
    /\ kind = "grads"
    /\ HasOutputDir \ HasCheckpoint # {}
    /\ HasCheckpoint \ HasOutputDir # {}

\* C3: a call of execute_job_submission with a zero-row table ends without
\* the prompt, returns None, raises nothing and runs or submits no job,
\* whatever port and block_main are.
C3_EmptyTableAborts ==
    (Called /\ valid_args = <<>>) =>
        /\ pc = "done"
        /\ raised = NoError
        /\ returned = PyNone
        /\ ~prompted /\ stdin = Unread
        /\ func_calls = <<>> /\ submitted = <<>> /\ executor = <<>>

\* C4: a confirmed local-mode call (port = 0) with a non-empty table calls
\* the job function exactly once, with the first record of the table, and
\* submits nothing.
C4_LocalRunsFirstRecord ==
    (Called /\ port = 0 /\ valid_args # <<>> /\ Confirmed) =>
        /\ func_calls = <<PyDict(valid_args[1])>>
        /\ submitted = <<>>

\* C5 (as stated): whenever port is not 0 and the operator confirmed, the
\* sequence of submitted records equals the filtered table.
C5_RemoteSubmitsWholeTable ==
    (Called /\ port # 0 /\ Confirmed) => submitted = valid_args

\* C5 (amended): the whole table is submitted, in table order, when port is
\* None; with a positive port only the first record is submitted; nothing
\* is submitted without confirmation.
C5_RemoteSubmission ==
    /\ (Called /\ port = NoPort /\ Confirmed) => submitted = valid_args
    /\ (Called /\ port > 0 /\ Confirmed) => submitted = <<valid_args[1]>>
    /\ ~Confirmed => submitted = <<>>

\* C5 witness: a confirmed array job of several records.
C5_Witness ==
    /\ port = NoPort /\ Confirmed
    /\ Len(submitted) >= 3
    /\ submitted = valid_args

\* C6: only the line "y" lets the call go on; after any other line the call
\* has ended with None, and no job function was called, no executor was
\* configured and no job was submitted.
C6_OnlyYProceeds ==
    /\ (stdin # Unread /\ stdin # "y") =>
          /\ pc = "done"
          /\ returned = PyNone /\ raised = NoError
          /\ func_calls = <<>> /\ executor = <<>>
          /\ submitted = <<>> /\ fetched = <<>>
    /\ (func_calls # <<>> \/ executor # <<>> \/ submitted # <<>>) => stdin = "y"
    /\ stdin = "y" => executor # <<>>

\* C6 witness: the operator typed an upper-case Y and the call ended.
C6_Witness == stdin = "Y" /\ pc = "done" /\ Len(valid_args) >= 2

\* C7: in remote mode with block_main set the handles are resolved one by
\* one in submission order and the call returns, only after the last one,
\* the results in submission order, one per submitted job; without
\* block_main it returns None right after submission and resolves no handle.
C7_BlockingFetch ==
    /\ fetched = [i \in 1 .. Len(fetched) |-> i]
    /\ Len(results) <= Len(submitted)
    /\ results = [i \in 1 .. Len(results) |-> ResultOf(submitted[i])]
    /\ returned.type = "list" =>
          /\ block_main /\ ~LocalMode(port) /\ pc = "done"
          /\ Len(fetched) = Len(submitted)
          /\ returned.items = [i \in 1 .. Len(submitted) |-> ResultOf(submitted[i])]
    /\ (submitted # <<>> /\ block_main /\ pc = "done" /\ raised = NoError) =>
          returned.type = "list"
    /\ (submitted # <<>> /\ block_main /\ Len(fetched) < Len(submitted)
            /\ raised = NoError) => pc = "waiting"
    /\ (submitted # <<>> /\ ~block_main) =>
          /\ pc = "done" /\ returned = PyNone
          /\ fetched = <<>> /\ results = <<>>

\* C7 witness: a blocking call returned the results of three jobs.
C7_Witness ==
    /\ block_main /\ pc = "done"
    /\ returned.type = "list" /\ Len(returned.items) >= 3
    /\ fetched = <<1, 2, 3>> \o SubSeq(fetched, 4, Len(fetched))

C8_State ==
    /\ (raised = "JobError" /\ submitted # <<>>) =>
          /\ block_main /\ pc = "done"
          /\ returned = NotReturned
          /\ fetched = [i \in 1 .. Len(fetched) |-> i]
          /\ Len(fetched) >= 1 /\ Len(fetched) <= Len(submitted)
          /\ results = [i \in 1 .. Len(fetched) - 1 |-> ResultOf(submitted[i])]
    /\ (raised = "JobError" /\ submitted = <<>>) =>
          /\ LocalMode(port) /\ pc = "done"
          /\ Len(func_calls) = 1
          /\ returned = NotReturned
    /\ Len(func_calls) <= 1
    /\ func_calls = <<>> \/ submitted = <<>>
    /\ \A i, j \in DOMAIN submitted : submitted[i] = submitted[j] => i = j
    /\ \A i, j \in DOMAIN fetched : fetched[i] = fetched[j] => i = j
    /\ Dispatched \subseteq Kept

\* C8: job failures are neither caught nor retried.  When the first failing
\* result-fetch is that of job k in blocking remote mode, the results of the
\* jobs before k are fetched, the error leaves the call there, no later
\* result is fetched and no list is returned; in local mode the error of
\* the job function leaves the call; no job is run or submitted twice; and
\* the call takes no step once an error has left it.
C8_FailurePropagates ==
    /\ []C8_State
    /\ [][raised = NoError]_vars

\* C8 witness: the second of three or more fetches failed.
C8_Witness ==
    /\ raised = "JobError"
    /\ Len(fetched) = 2 /\ Len(results) = 1
    /\ Len(submitted) >= 3

PhaseTraces ==
    { <<"Expanded", "Filtered", "Aborted">>,
      <<"Expanded", "Filtered", "Confirmed", "LocalRun">>,
      <<"Expanded", "Filtered", "Confirmed", "RemoteSubmitted">>,
      <<"Expanded", "Filtered", "Confirmed", "RemoteSubmitted", "RemoteCompleted">> }

IsPrefix(s, t) == Len(s) <= Len(t) /\ s = SubSeq(t, 1, Len(s))

\* C9: every call follows Expanded -> Filtered -> {Aborted | Confirmed} ->
\* {LocalRun | RemoteSubmitted -> RemoteCompleted}, runs or submits jobs only
\* after Confirmed and never after Aborted, and ends in exactly one of
\* Aborted, LocalRun, RemoteSubmitted (non-blocking) or RemoteCompleted
\* (blocking).
C9_StateMachine ==
    /\ \E t \in PhaseTraces : IsPrefix(phases, t)
    /\ Dispatched # {} => (Len(phases) >= 3 /\ phases[3] = "Confirmed")
    /\ (Len(phases) >= 3 /\ phases[3] = "Aborted") => Dispatched = {}
    /\ pc = "done" =>
          /\ phases \in PhaseTraces
          /\ phases[Len(phases)] = "RemoteSubmitted" => ~block_main
          /\ phases[Len(phases)] = "RemoteCompleted" => block_main

\* C10 (as stated): in local mode the job runs without the question being
\* printed or a line being read; in remote mode every submission follows
\* the question.
C10_PromptRemoteOnly ==
    /\ (Called /\ port = 0) => (~prompted /\ stdin = Unread)
    /\ submitted # <<>> => prompted

\* C10 (amended): the question is asked in every mode, local mode included:
\* every call with a non-empty table that gets past the debug truncation
\* prints it, and a job is run locally or submitted only after it was
\* printed and answered with "y".
C10_PromptEveryMode ==
    /\ (Called /\ valid_args # <<>>) => prompted
    /\ (func_calls # <<>> \/ submitted # <<>>) => (prompted /\ stdin = "y")
    /\ stdin # Unread => prompted

\* C10 witness: a local run that followed the question and the answer "y".
C10_Witness ==
    /\ port = 0 /\ func_calls # <<>>
    /\ prompted /\ stdin = "y"

----------------------------------------------------------------------------
\* Properties of the argument expander, in the table of a submission call.

\* the value lists of a grid and the values of a row, in keyword order
ListsOf(g) ==
    << g.dataset, g.model_name, g.layers, g.activation, g.seed, g.l2_reg,
       g.img_size, g.epochs >>
ValuesOf(r) ==
    << r.dataset, r.model_name, r.layers, r.activation, r.seed, r.l2_reg,
       r.img_size, r.epochs >>

RECURSIVE ProductOfLengths(_)
ProductOfLengths(lists) ==
    IF lists = <<>> THEN 1 ELSE Len(Head(lists)) * ProductOfLengths(Tail(lists))

\* how many rows pass before parameter k takes its next value
Stride(lists, k) == ProductOfLengths(SubSeq(lists, k + 1, Len(lists)))

\* C11: the table of a call holds as many records as the product of the
\* lengths of the value lists, every combination of values exactly once, in
\* the order in which the last parameter varies fastest; it holds no record
\* when a value list is empty.
C11_Expander ==
    Called =>
        LET L == ListsOf(kwargs) IN
        /\ Len(table) = ProductOfLengths(L)
        /\ (\E k \in DOMAIN L : L[k] = <<>>) => table = <<>>
        /\ \A i1 \in DOMAIN kwargs.dataset, i2 \in DOMAIN kwargs.model_name,
              i3 \in DOMAIN kwargs.layers, i4 \in DOMAIN kwargs.activation,
              i5 \in DOMAIN kwargs.seed, i6 \in DOMAIN kwargs.l2_reg,
              i7 \in DOMAIN kwargs.img_size, i8 \in DOMAIN kwargs.epochs :
              Cardinality({ i \in DOMAIN table :
                  Candidate(table[i]) =
                      [ dataset |-> kwargs.dataset[i1],
                        model_name |-> kwargs.model_name[i2],
                        layers |-> kwargs.layers[i3],
                        activation |-> kwargs.activation[i4],
                        seed |-> kwargs.seed[i5], l2_reg |-> kwargs.l2_reg[i6],
                        img_size |-> kwargs.img_size[i7],
                        epochs |-> kwargs.epochs[i8] ] }) = 1
        /\ \A i \in DOMAIN table : \A k \in DOMAIN L :
              ValuesOf(table[i])[k] =
                  L[k][(((i - 1) \div Stride(L, k)) % Len(L[k])) + 1]

\* C11 witness: a grid of 2 x 2 x 2 values expanded to 8 records, the second
\* of which differs from the first in the last parameter.
C11_Witness ==
    /\ Called /\ Len(table) = 8
    /\ Len(kwargs.model_name) = 2 /\ Len(kwargs.seed) = 2 /\ Len(kwargs.epochs) = 2
    /\ table[1].epochs # table[2].epochs /\ table[1].seed = table[2].seed

----------------------------------------------------------------------------
\* get_experiment_prefix applied to two records.

CIFAR10 == <<"C","I","F","A","R","1","0">>
LEAKY_RELU == <<"L","E","A","K","Y","_","R","E","L","U">>

\* member names of ModelSwitch and ActivationSwitch among the values used
ModelSwitchNames == {SIMPLE_CNN, RESNET18}
ActivationSwitchNames == {RELU, LEAKY_RELU}

\* The records that are named: enum member names and integers, and also
\* free strings that contain the separator "::".
NameRecords ==
    [ dataset : {MNIST, CIFAR10},
      model_name : ModelSwitchNames \cup { RESNET18 \o <<":", ":", "8">> },
      layers : { <<8>>, <<8, 16>>, <<81, 6>> },
      activation : ActivationSwitchNames \cup { <<"8", ":", ":">> \o RELU },
      seed : 1 .. MaxSeeds,
      l2_reg : {0},
      img_size : {28},
      epochs : {10, 20} ]

NameInit ==
    /\ rec_a \in NameRecords /\ rec_b \in NameRecords
    /\ id_a = <<>> /\ id_b = <<>>
    /\ fs = {}
    /\ CallIdle /\ RaceIdle /\ QuantIdle /\ LoadIdle

\* both records are named
NameBoth ==
    /\ id_a = <<>>
    /\ id_a' = get_experiment_prefix(rec_a)
    /\ id_b' = get_experiment_prefix(rec_b)
    /\ UNCHANGED <<rec_a, rec_b, fs, callVars, raceVars, quantVars, loadVars>>

NameNext == NameBoth

NamingSpec == NameInit /\ [][NameNext]_vars

Named == id_a # <<>>

SixFieldsEqual(a, b) ==
    /\ a.model_name = b.model_name /\ a.layers = b.layers
    /\ a.activation = b.activation /\ a.seed = b.seed
    /\ a.l2_reg = b.l2_reg /\ a.img_size = b.img_size

\* model and activation are enum member names (the other consumed fields
\* are integers in every record)
EnumNamed(r) ==
    r.model_name \in ModelSwitchNames /\ r.activation \in ActivationSwitchNames

\* C12 (as stated): two records identical in model, layers, activation,
\* seed, l2_reg and img_size get identical identifiers whatever the values
\* of all their other fields.
C12_SixFieldsDecide ==
    (Named /\ SixFieldsEqual(rec_a, rec_b)) => id_a = id_b

\* C12 (amended): the identifier depends on those six fields and on the
\* dataset: records identical in the seven fields get identical identifiers
\* whatever their other fields, and records identical in the six fields but
\* of different datasets get different identifiers.
C12_SevenFieldsDecide ==
    (Named /\ SixFieldsEqual(rec_a, rec_b)) =>
        /\ rec_a.dataset = rec_b.dataset => id_a = id_b
        /\ rec_a.dataset # rec_b.dataset => id_a # id_b

\* C12 witness: two named records that differ in epochs only.
C12_Witness ==
    /\ Named /\ SixFieldsEqual(rec_a, rec_b)
    /\ rec_a.dataset = rec_b.dataset /\ rec_a.epochs # rec_b.epochs
    /\ id_a = id_b

\* C13 (as stated): two records that differ in one of the six fields get
\* different identifiers and checkpoint paths, also when the field values
\* are strings that contain "_" or "::".
C13_Injective ==
    (Named /\ ~SixFieldsEqual(rec_a, rec_b)) =>
        /\ id_a # id_b
        /\ get_save_path(rec_a) # get_save_path(rec_b)

\* C13 on enum member names: the identifier is injective over the six
\* fields for records whose model and activation are enum member names and
\* whose layers, seed, l2_reg and img_size are integers.
C13_InjectiveOnEnumNames ==
    (Named /\ EnumNamed(rec_a) /\ EnumNamed(rec_b)
           /\ ~SixFieldsEqual(rec_a, rec_b)) =>
        /\ id_a # id_b
        /\ get_save_path(rec_a) # get_save_path(rec_b)

\* C13 on enum member names, reached: two records whose layer lists 8,16 and
\* 81,6 hold the same digits are named differently.
C13_Witness ==
    /\ Named /\ EnumNamed(rec_a) /\ EnumNamed(rec_b)
    /\ rec_a.layers = <<8, 16>> /\ rec_b.layers = <<81, 6>>
    /\ rec_a.model_name = rec_b.model_name /\ rec_a.seed = rec_b.seed
    /\ rec_a.activation = rec_b.activation /\ rec_a.dataset = rec_b.dataset
    /\ id_a # id_b

----------------------------------------------------------------------------
\* The checkpoint path and the output directory of a table row, written out.

RECURSIVE LayersJoined(_)
LayersJoined(l) ==
    IF l = <<>> THEN <<>>
    ELSE IF Len(l) = 1 THEN IntToStr(l[1])
    ELSE IntToStr(l[1]) \o <<"_">> \o LayersJoined(Tail(l))

\* <model>::<layers joined by '_'>::<activation>::<seed>::<l2_reg>::<img_size>
\* behind <dataset>/
WrittenIdentifier(r) ==
    r.dataset \o <<"/">>
        \o r.model_name \o <<":", ":">> \o LayersJoined(r.layers)
        \o <<":", ":">> \o r.activation
        \o <<":", ":">> \o IntToStr(r.seed)
        \o <<":", ":">> \o IntToStr(r.l2_reg)
        \o <<":", ":">> \o IntToStr(r.img_size)

\* C14: in every row of the training and of the gradient table the
\* checkpoint path is 'checkpoints/' + dataset + '/' + the six fields joined
\* by '::' in the order model, layers, activation, seed, l2_reg, img_size +
\* '.pt'; the identifier inside it is the one get_experiment_prefix returns
\* for the row, and the gradient row's output directory is the output root
\* joined to that same identifier.
C14_SavePath ==
    (kind \in {"training", "grads"}) =>
        \A i \in DOMAIN table :
            LET row == table[i]
                id == get_experiment_prefix(Candidate(row))
            IN /\ row.checkpoint_path =
                      <<"c","h","e","c","k","p","o","i","n","t","s","/">>
                          \o WrittenIdentifier(row) \o <<".","p","t">>
               /\ id = WrittenIdentifier(row)
               /\ row.checkpoint_path = get_save_path(Candidate(row))
               /\ kind = "training" => row.tb_postfix = id
               /\ kind = "grads" =>
                      /\ row.experiment_prefix = id
                      /\ row.experiment_output_dir =
                             LOCAL_OUTPUT_DIR \o <<"/">> \o id

\* C14 witness: a gradient table with two rows of different checkpoint
\* paths, each written as above.
C14_Witness ==
    /\ kind = "grads" /\ Len(table) >= 2
    /\ table[1].checkpoint_path # table[2].checkpoint_path
    /\ \A i \in 1 .. 2 :
          /\ table[i].checkpoint_path =
                 <<"c","h","e","c","k","p","o","i","n","t","s","/">>
                     \o WrittenIdentifier(table[i]) \o <<".","p","t">>
          /\ table[i].experiment_output_dir =
                 LOCAL_OUTPUT_DIR \o <<"/">> \o get_experiment_prefix(Candidate(table[i]))

----------------------------------------------------------------------------
\* Two submission runs of the same kind against one filesystem.  Each run
\* is a submit_training or submit_grads call with port None: it builds and
\* filters its table (reading the filesystem), prompts, and on "y" hands
\* the filtered table to the executor.

Runs == {1, 2}

\* the grid both runs are given
RaceGrid ==
    [ dataset |-> <<MNIST>>, model_name |-> <<SIMPLE_CNN, RESNET18>>,
      layers |-> << <<8, 16>> >>, activation |-> <<RELU>>, seed |-> <<1>>,
      l2_reg |-> <<0>>, img_size |-> <<28>>, epochs |-> <<10>> ]

RaceInit ==
    /\ fs \in DiskContents
    /\ race_kind \in {"training", "grads"}
    /\ run_pc = [r \in Runs |-> "start"]
    /\ run_valid = [r \in Runs |-> <<>>]
    /\ run_submitted = [r \in Runs |-> <<>>]
    /\ race_log = <<>>
    /\ CallIdle /\ NameIdle /\ QuantIdle /\ LoadIdle

\* the table a run would hand on, filtered against the disk as it is now
RaceValidArgs ==
    IF race_kind = "training"
    THEN TrainingValidArgs(TrainingTable(RaceGrid), NoPort, FALSE, 60)
    ELSE GradsValidArgs(GradsTable(RaceGrid, NoPort, FALSE, 60))

\* the table is built and filtered by os.path.exists; an empty table ends
\* the run, any other is shown at the prompt
RunCheck(r) ==
    /\ run_pc[r] = "start"
    /\ run_valid' = [run_valid EXCEPT ![r] = RaceValidArgs]
    /\ run_pc' = [run_pc EXCEPT ![r] = IF RaceValidArgs = <<>> THEN "done" ELSE "prompt"]
    /\ race_log' = Append(race_log, <<r, "check">>)
    /\ UNCHANGED <<race_kind, run_submitted, fs, callVars, nameVars, quantVars, loadVars>>

\* mutant of RunAnswer: the table is filtered again when the operator answers
RunAnswerRechecking(r) ==
    /\ run_pc[r] = "prompt"
    /\ \E line \in InputLines :
          IF Affirmative(line)
          THEN /\ run_submitted' = [run_submitted EXCEPT ![r] = RaceValidArgs]
               /\ race_log' = Append(race_log, <<r, "submit">>)
          ELSE /\ run_submitted' = run_submitted
               /\ race_log' = Append(race_log, <<r, "abort">>)
    /\ run_pc' = [run_pc EXCEPT ![r] = "done"]
    /\ UNCHANGED <<race_kind, run_valid, fs, callVars, nameVars, quantVars, loadVars>>

\* the operator answers; on "y" the table filtered earlier is submitted
RunAnswer(r) ==
    /\ run_pc[r] = "prompt"
    /\ \E line \in InputLines :
          IF Affirmative(line)
          THEN /\ run_submitted' = [run_submitted EXCEPT ![r] = run_valid[r]]
               /\ race_log' = Append(race_log, <<r, "submit">>)
          ELSE /\ run_submitted' = run_submitted
               /\ race_log' = Append(race_log, <<r, "abort">>)
    /\ run_pc' = [run_pc EXCEPT ![r] = "done"]
    /\ UNCHANGED <<race_kind, run_valid, fs, callVars, nameVars, quantVars, loadVars>>

\* what a submitted job leaves on disk when it completes
JobProduct(job) ==
    IF race_kind = "training" THEN job.checkpoint_path
    ELSE job.experiment_output_dir

\* a submitted job completes
JobFinishes ==
    /\ \E r \in Runs : \E i \in DOMAIN run_submitted[r] :
          /\ JobProduct(run_submitted[r][i]) \notin fs
          /\ fs' = fs \cup {JobProduct(run_submitted[r][i])}
    /\ UNCHANGED <<raceVars, callVars, nameVars, quantVars, loadVars>>

RaceNext ==
    \/ \E r \in Runs : RunCheck(r)
    \/ \E r \in Runs : RunAnswer(r)
    \/ JobFinishes

RaceSpec == RaceInit /\ [][RaceNext]_vars

\* C15: the existence check and the submission are separate steps: what a
\* run submits is the table it filtered at its check, whatever has appeared
\* on disk since, and nothing keeps the other run from checking in between;
\* so both runs can see one job's checkpoint (or output directory) absent
\* and both submit it.
C15_CheckThenSubmit ==
    \A r \in Runs :
        /\ run_submitted[r] \in {<<>>, run_valid[r]}
        /\ \A q \in Runs \ {r} :
              (run_pc[r] = "prompt" /\ run_pc[q] = "prompt") =>
                  \A i \in DOMAIN run_valid[r] :
                      JobProduct(run_valid[r][i]) \notin fs =>
                          \E j \in DOMAIN run_valid[q] :
                              run_valid[q][j] = run_valid[r][i]

\* C15 witness: run 1 checks, run 2 checks, run 1 submits, run 2 submits,
\* and one job is in both submissions.
C15_Witness ==
    /\ race_log = << <<1, "check">>, <<2, "check">>, <<1, "submit">>, <<2, "submit">> >>
    /\ \E i \in DOMAIN run_submitted[1] : \E j \in DOMAIN run_submitted[2] :
          /\ run_submitted[1][i] = run_submitted[2][j]
          /\ run_submitted[1][i] = run_valid[1][i]

----------------------------------------------------------------------------
\* The measurement jobs of one array job: quant.main runs once per record
\* and writes its results to quants.csv.

QuantInit ==
    /\ quant_jobs \in { MeasurementsTable(g, NoPort, FALSE, 60) : g \in Grids(0) }
    /\ quant_done = {}
    /\ quants_csv = <<>>
    /\ fs = {}
    /\ CallIdle /\ NameIdle /\ RaceIdle /\ LoadIdle

\* results of quant_measures_grads.main for one job: its measurement output
MeasurementResults(job) == << [measured |-> Candidate(job)] >>

\* pd.DataFrame(results).to_csv(path, index=False): the file is opened for
\* writing, what it held is gone
to_csv(old_rows, new_rows) == new_rows

\* one job runs quant.main to its end
JobCompletes(i) ==
    /\ i \in DOMAIN quant_jobs /\ i \notin quant_done
    /\ quants_csv' = to_csv(quants_csv, MeasurementResults(quant_jobs[i]))
    /\ quant_done' = quant_done \cup {i}
    /\ UNCHANGED <<quant_jobs, fs, callVars, nameVars, raceVars, loadVars>>

QuantNext == \E i \in DOMAIN quant_jobs : JobCompletes(i)

QuantSpec == QuantInit /\ [][QuantNext]_vars

\* C16: quants.csv holds one row per completed job: the output of every
\* completed job is in the file, and the file has as many rows as jobs have
\* completed.
C16_OneRowPerCompletedJob ==
    /\ Len(quants_csv) = Cardinality(quant_done)
    /\ \A i \in quant_done :
          \E k \in DOMAIN quants_csv :
              quants_csv[k] = MeasurementResults(quant_jobs[i])[1]

----------------------------------------------------------------------------
\* The debug flag and the return value of execute_job_submission.

\* number of records handed to the job function or to the executor
DispatchedCount ==
    Len(submitted) + Len(Concat([i \in DOMAIN func_calls |-> func_calls[i].items]))

\* C17: with a port that is not None the job list is the first record of
\* the table alone, and at most one job, that first record, is run or
\* submitted; with port None the job list is the whole table, which a
\* confirmed call submits whole; two or more jobs are dispatched only when
\* port is None.
C17_DebugTruncation ==
    Called =>
        /\ (port # NoPort /\ valid_args # <<>>) => jobs_args = <<valid_args[1]>>
        /\ port # NoPort =>
              /\ DispatchedCount <= 1
              /\ \A i \in DOMAIN submitted : submitted[i] = valid_args[1]
              /\ \A i \in DOMAIN func_calls :
                    func_calls[i].items = <<valid_args[1]>>
        /\ port = NoPort =>
              /\ jobs_args = valid_args
              /\ func_calls = <<>>
              /\ submitted = IF Confirmed THEN valid_args ELSE <<>>
        /\ DispatchedCount >= 2 => port = NoPort

\* C17 witness: a table of at least two jobs and a positive port, the first
\* record alone submitted.
C17_Witness ==
    /\ Called /\ port > 0 /\ Len(valid_args) >= 2
    /\ submitted = <<valid_args[1]>>

RemoteBlockingCompleted ==
    /\ ~LocalMode(port) /\ block_main /\ Confirmed
    /\ Len(fetched) = Len(submitted)
    /\ raised = NoError

\* C18: the call returns a list, the fetched results, only when it was
\* remote, blocking and every fetch succeeded; every other path that ends
\* without an error (empty table, refused confirmation, local run with or
\* without block_main, non-blocking remote submission) returns None, the
\* local job function's return value included; a path that ends in an error
\* returns nothing.
C18_ReturnValue ==
    /\ returned.type = "list" =>
          /\ pc = "done" /\ RemoteBlockingCompleted
          /\ returned = PyList(results)
          /\ Len(results) = Len(submitted)
    /\ (pc = "done" /\ raised = NoError /\ ~RemoteBlockingCompleted) =>
          returned = PyNone
    /\ (pc = "done" /\ RemoteBlockingCompleted) => returned.type = "list"
    /\ (pc = "done" /\ raised # NoError) => returned = NotReturned
    /\ pc # "done" => returned = NotReturned

\* C18 witness: a confirmed local run with block_main set whose job function
\* returned, and the call returned None.
C18_Witness ==
    /\ pc = "done" /\ LocalMode(port) /\ block_main /\ Confirmed
    /\ func_calls # <<>> /\ raised = NoError
    /\ returned = PyNone

----------------------------------------------------------------------------
\* submit_measurements and the disk.

\* C19: the table submit_measurements hands to execute_job_submission is
\* the whole product of its grid, in order, every record extended with the
\* call's port, block_main and timeout, whatever checkpoints and output
\* directories exist; nothing is reported as skipped.
C19_MeasurementsUnfiltered ==
    kind = "measurements" =>
        /\ valid_args = table
        /\ Len(table) = Len(Expand(kwargs))
        /\ \A i \in DOMAIN table :
              /\ Candidate(table[i]) = Expand(kwargs)[i]
              /\ table[i].port = port
              /\ table[i].block_main = block_main
              /\ table[i].timeout = timeout
        /\ ckpt_report = <<>> /\ out_report = <<>>

\* C19 witness: a measurement table handed on whole although one of its
\* records has no checkpoint and another has a checkpoint and an output
\* directory.
C19_Witness ==
    /\ kind = "measurements" /\ valid_args = table
    /\ \E i, j \in DOMAIN table :
          /\ get_save_path(Candidate(table[i])) \notin fs
          /\ get_save_path(Candidate(table[j])) \in fs
          /\ experiment_output_dir(Candidate(table[j])) \in fs

----------------------------------------------------------------------------
\* Loading src/datasets.py: the @register_dataset decorators run in source
\* order, each after its argument DatasetSwitch.<NAME> is evaluated.

\* member names of DatasetSwitch
DatasetSwitchMembers == {"CIFAR10", "MNIST", "IMAGENETTE", "FASHION_MNIST", "GRADS"}

\* the names the decorators are given, in source order
Registrations ==
    << "IMAGENET", "IMAGENETTE", "FASHION_MNIST", "CIFAR10", "MNIST", "GRADS" >>

MissingMember == "AttributeError: DatasetSwitch"
MissingRoot == "AttributeError: paths"

\* the module is about to be loaded; paths defines some of the <NAME>_ROOT
\* attributes (an attribute is written here by its <NAME>)
LoadInit ==
    /\ load_pc = 0
    /\ registered_datasets = {}
    /\ load_error = NoError
    /\ paths_attrs \in SUBSET Range(Registrations)
    /\ fs = {}
    /\ CallIdle /\ NameIdle /\ RaceIdle /\ QuantIdle

\* the next decorator line is executed
LoadStep ==
    /\ load_error = NoError
    /\ load_pc < Len(Registrations)
    /\ LET name == Registrations[load_pc + 1] IN
          IF name \notin DatasetSwitchMembers
          THEN /\ load_error' = MissingMember
               /\ UNCHANGED <<load_pc, registered_datasets>>
          ELSE IF name \notin paths_attrs
          THEN /\ load_error' = MissingRoot
               /\ UNCHANGED <<load_pc, registered_datasets>>
          ELSE /\ registered_datasets' = registered_datasets \cup {name}
               /\ load_pc' = load_pc + 1
               /\ load_error' = load_error
    /\ UNCHANGED <<paths_attrs, fs, callVars, nameVars, raceVars, quantVars>>

LoadNext == LoadStep

LoadSpec == LoadInit /\ [][LoadNext]_vars

\* C20: every dataset kind the module registers is a member of
\* DatasetSwitch, so that loading the module never ends with a missing
\* enumeration member.
C20_RegistryConsistent ==
    /\ load_error # MissingMember
    /\ registered_datasets \subseteq DatasetSwitchMembers

====
